---- MODULE Spec2Model ----
(***************************************************************************)
(* Rendering execution engine of ADK-Chart-Master.                         *)
(*                                                                         *)
(* BaseRenderTool.run_async validates a request, hands _render_sync to the *)
(* tool's own ThreadPoolExecutor under asyncio.wait_for, and saves the     *)
(* bytes as an artifact.  Every tool instance owns one executor; the       *)
(* availability flags set by _check_dependencies are read inside           *)
(* _render_sync, on the worker thread.                                     *)
(*                                                                         *)
(* Time is counted in units of 30 seconds (the smallest timeout in the     *)
(* modelled tools): wait_for's 120 s is 4 units.                           *)
(***************************************************************************)
EXTENDS Integers, Sequences, FiniteSets, TLC

(* ------------------------------ bounds --------------------------------- *)

\* Number of Render calls the caller of Spec makes, one after another.
NReq == 1

\* Number of concurrent Render calls in the load specification (SpecLoad).
NLoad == 3

\* Number of Render calls in the store specification (SpecStore), made
\* one after another.
NStore == 2

\* Number of concurrent Render calls to the ECharts tool in the temporary
\* file specification (SpecTemp).
NTemp == 3

\* Connections made to /events/{user_id}, the user ids they use, and the
\* messages posted to /send/{user_id}.
NConn == 3

NUser == 2

MaxSent == 2

\* Longest body of the chart code put through preprocessing, in tokens.
MaxCode == 3

\* Number of concurrent Render calls to one tool in the queue specification
\* (SpecQueue).
NQueue == 3

Max(a, b) == IF a > b THEN a ELSE b

Reqs == 1..Max(Max(Max(NReq, NLoad), Max(NStore, NQueue)), NTemp)

(* ------------------------- program constants --------------------------- *)

\* ThreadPoolExecutor(max_workers=2), one per tool instance.
MaxWorkers == 2

\* asyncio.wait_for(..., timeout=120.0), in units of 30 s.
WaitForTimeout == 4

\* The render tools modelled: a command-line child (Mermaid), Python
\* children (Matplotlib, Folium), in-process exec (Seaborn), a node child
\* with an in-process HTML mode (ECharts), a java child with an online
\* fallback (PlantUML).
Tools == {"mermaid", "matplotlib", "seaborn", "echarts", "plantuml", "folium"}

\* supported_formats passed to BaseRenderTool.__init__ by each tool.
supported_formats(t) ==
    CASE t = "mermaid"    -> {"png", "svg", "pdf"}
      [] t = "matplotlib" -> {"png", "svg", "pdf"}
      [] t = "seaborn"    -> {"png", "svg", "pdf"}
      [] t = "echarts"    -> {"html", "png"}
      [] t = "plantuml"   -> {"png", "svg", "pdf", "txt"}
      [] t = "folium"     -> {"html", "png"}

\* subprocess.run(..., timeout=...) of each tool that spawns a child, in
\* units of 30 s; 0 stands for "the tool spawns no child".
subprocess_timeout(t) ==
    CASE t = "mermaid"    -> 1
      [] t = "matplotlib" -> 2
      [] t = "echarts"    -> 2
      [] t = "plantuml"   -> 2
      [] t = "folium"     -> 4
      [] OTHER            -> 0

\* requests.get(url, timeout=30) of the PlantUML online service.
RequestsTimeout == 1

\* len(PlantUMLRenderTool.PLANTUML_SERVERS)
NumServers == 3

(* ------------------------------ inputs --------------------------------- *)

\* What the code argument is: blank (code.strip() is empty), nothing but
\* code-fence markers, or real chart code.
CodeKinds == {"blank", "fence", "ok"}

\* What else an args dict can hold under "code" (for ECharts "config"): no
\* such key, None, or a value that is not a string (a number other than 0).
ArgKinds == {"missing", "None", "number"}

\* Fence-only code is tried on the tools whose _render_sync treats it apart
\* from real code (Matplotlib raises on it, Seaborn runs the injected line).
CodeKindsOf(t) ==
    IF t \in {"matplotlib", "seaborn"} THEN CodeKinds ELSE {"blank", "ok"}

\* The tools the load specification drives: one that runs user code in
\* process with no timeout of its own, one that spawns a child with one.
LoadTools == {"seaborn", "folium"}

\* tool_context is an ADK ToolContext, or None.
Contexts == {"adk", "local"}

\* args.get("title", "chart")
DefaultTitle == "chart"

\* The titles the store specification tries: two that differ only in a
\* character the local save replaces.
Titles == {"a b", "a_b"}

\* The output_format values the callers try.
RequestFormats == {"png", "html", "gif"}

\* What the _check_dependencies probes can find missing while the process
\* still starts: the mmdc command, a working Matplotlib backend
\* (_test_matplotlib_backend), node, the ECharts npm packages, the folium
\* and selenium libraries, and the optional canvas npm package.  (seaborn_render_tool imports seaborn, pandas,
\* numpy and matplotlib at module level, so a process in which a render can
\* be requested has them.)
Deps == {"mmdc", "matplotlib_backend", "node", "echarts_npm", "canvas", "folium",
         "selenium"}

\* The deployments: every dependency present, or one of them missing.
Deployments == {{}} \cup {{d} : d \in Deps}

\* Rendered bytes: empty, or content in the format k.
Empty == <<>>
Bytes(k) == <<k>>

NoArgs == [tool |-> "none", code |-> "none", fmt |-> "none", title |-> "none"]
NoRes == [success |-> FALSE, data |-> Empty, error |-> "none"]
NoRef == [filename |-> "none", version |-> "none"]
NoRet == [success |-> FALSE, error |-> "none", keys |-> {}, size |-> 0,
          ref |-> NoRef]

VARIABLES
    context,     \* how run_async is called: with a tool_context ("adk") or
                 \*   with tool_context=None ("local")
    now,         \* int(time.time()), counted from the start and only as far
                 \*   as saved file names can tell
    missing,     \* dependencies the probes at construction found missing
    jar,         \* PlantUML's lazily probed local renderer: unprobed/yes/no
    load,        \* Render calls the callers may still issue
    args,        \* args[r]: arguments of request r
    pc,          \* pc[r]: new / awaiting / returned / cancelled
    ret,         \* ret[r]: the dict run_async returned
    queue,       \* queue[t]: work queue of tool t's executor
    work,        \* work[r]: none / queued / running / done / dropped
    blocked,     \* blocked[r]: what the worker of r is blocked on
    dir,         \* dir[r]: where the temporary files of r live
    fut,         \* fut[r]: result _render_sync returned
    age,         \* age[r]: time since r was submitted to the executor
    pAge,        \* pAge[r]: time since the child / HTTP request of r started
    server,      \* server[r]: index of the PlantUML server being tried, or 0
    steps,       \* steps[r]: pipeline steps taken for r, in order: validate,
                 \*   format, dispatch, execute (_render_sync entered),
                 \*   spawn (once for every child / exec / HTTP request
                 \*   started), save
    artifacts,   \* the saved artifacts (ADK artifact service or local files)
    pre,         \* a piece of chart code on its way through a tool's
                 \*   preprocessing, once and once more
    std,         \* the process's sys.stdout and sys.stderr, and how far each
                 \*   worker thread of the Plotly tool is in
                 \*   _execute_plotly_code
    temp,        \* the ECharts renders' temporary file names: which renders
                 \*   read the clock in the current millisecond, and
                 \*   path[r], the render whose timestamp names r's files
    sse          \* main.py's event streams: the active_sessions dict, the
                 \*   session entries made so far, and each stream's
                 \*   event_generator

\* The state of the render calls.
render == <<context, now, missing, jar, load, args, pc, ret, queue, work, blocked, dir,
            fut, age, pAge, server, steps, artifacts>>

\* The state a render call never touches.
apart == <<pre, std, sse>>

vars == <<render, apart, temp>>

(* ------------------------------ helpers -------------------------------- *)

Range(s) == {s[i] : i \in 1..Len(s)}

Failure(e) == [success |-> FALSE, data |-> Empty, error |-> e]
Success(d) == [success |-> TRUE, data |-> d, error |-> "none"]

\* Requests of tool t whose _render_sync occupies a worker thread.
Running(t) == {r \in Reqs : work[r] = "running" /\ args[r].tool = t}

\* Mutant: the executor starts a thread for every submitted work item.
slot_free_unbounded(t) == TRUE

\* ThreadPoolExecutor(max_workers=2): a worker thread of tool t's executor is
\* idle or can still be created.
slot_free(t) == Cardinality(Running(t)) < MaxWorkers

\* Mutant: a work item submitted while a tool's workers are all busy is
\* refused.
submit_unless_busy(q, r) ==
    IF \E t \in Tools : ~slot_free(t) THEN q ELSE Append(q, r)

\* loop.run_in_executor(self.executor, ...): the work item joins the
\* executor's unbounded queue.
submit(q, r) == Append(q, r)

Remove(q, r) == SelectSeq(q, LAMBDA x : x # r)

Min(a, b) == IF a < b THEN a ELSE b

\* The clock of a request runs while its caller awaits it or a worker runs it.
Active(r) == pc[r] = "awaiting" \/ work[r] = "running"

(* --------------------------- initial state ----------------------------- *)

\* A finished call is handed back before anything else happens.
Closing ==
    \E r \in Reqs : pc[r] \in {"returned", "cancelled", "raised"} /\ work[r] # "running"


InitRender(n) ==
    /\ context \in Contexts
    /\ now = 0
    /\ missing \in Deployments
    /\ jar = "unprobed"
    /\ load = n
    /\ args = [r \in Reqs |-> NoArgs]
    /\ pc = [r \in Reqs |-> "new"]
    /\ ret = [r \in Reqs |-> NoRet]
    /\ queue = [t \in Tools |-> <<>>]
    /\ work = [r \in Reqs |-> "none"]
    /\ blocked = [r \in Reqs |-> "none"]
    /\ dir = [r \in Reqs |-> "none"]
    /\ fut = [r \in Reqs |-> NoRes]
    /\ age = [r \in Reqs |-> 0]
    /\ pAge = [r \in Reqs |-> 0]
    /\ server = [r \in Reqs |-> 0]
    /\ steps = [r \in Reqs |-> <<>>]
    /\ artifacts = {}

\* No code is being preprocessed apart from the render calls.
NoPre == [tool |-> "none", code |-> <<>>, once |-> <<>>, twice |-> <<>>, passes |-> 0]

\* The worker threads of one tool instance's executor.
Workers == 1..MaxWorkers

\* Stream objects: the process's own stream, the StringIO buffer worker w
\* creates for its render; Unbound is a local not yet assigned.
Original == <<"original", 0>>
buffer(w) == <<"buffer", w>>
Unbound == <<"unbound", 0>>

\* Both worker threads of the Plotly tool are about to enter
\* _execute_plotly_code; sys.stdout and sys.stderr are the process's own.
StdInit ==
    [sys_stdout |-> Original, sys_stderr |-> Original,
     old_stdout |-> [w \in Workers |-> Unbound],
     old_stderr |-> [w \in Workers |-> Unbound],
     at         |-> [w \in Workers |-> "entry"]]

\* No ECharts render has named its temporary files yet.
TempInit == [fresh |-> {}, path |-> [r \in Reqs |-> 0]]

\* The connections to /events/{user_id}, in the order they are made, and
\* the user ids they are made with.
Conns == 1..NConn

Users == 1..NUser

\* The server has just started: active_sessions = {} and no stream is open.
\* active_sessions[u] is the connection whose entry is stored under u's key
\* (0: no key); connected[k] and message_queue[k] are the fields of the entry
\* made by connection k; stream[k] is connection k's event_generator with
\* the entry it holds as session_data; got[k] are the messages it has
\* answered; reply[u] is the last response of /send/{u}.
SseInit ==
    [active_sessions |-> [u \in Users |-> 0],
     connected       |-> [k \in Conns |-> FALSE],
     message_queue   |-> [k \in Conns |-> <<>>],
     stream          |-> [k \in Conns |-> [user |-> 0, at |-> "none", session_data |-> 0]],
     got             |-> [k \in Conns |-> <<>>],
     reply           |-> [u \in Users |-> "none"],
     opened          |-> 0,
     sent            |-> 0]

InitWith(n) ==
    /\ InitRender(n)
    /\ pre = NoPre /\ std = StdInit /\ temp = TempInit /\ sse = SseInit

\* The ADK runner calls the tools with a tool_context.
Init == InitWith(NReq) /\ context = "adk"

(* ------------------------------ run_async ------------------------------ *)

\* Keys of the dict _handle_render_error builds.
handle_render_error(e) ==
    [success |-> FALSE, error |-> e,
     keys |-> {"success", "error", "fallback_code", "tool_name", "message"},
     size |-> 0, ref |-> NoRef]

\* args.get("code", ""): a missing key reads as the empty string.
args_get(c) == IF c = "missing" THEN "blank" ELSE c

\* code.strip() on a value that is not a string raises AttributeError, on
\* the line of the empty check, which no try statement encloses.  The
\* ECharts tool tests "not config or not config.strip()" first: None stops
\* at "not config", any other non-string reaches config.strip().
strip_raises(t, c) ==
    IF t = "echarts" THEN c = "number" ELSE c \in {"None", "number"}

\* "if not code.strip()" (for ECharts "if not config or not config.strip()",
\* the only test a None reaches).
code_is_empty(c) == args_get(c) \in {"blank", "None"}

\* Mutant: the format is tested against every format any tool supports.
format_unsupported_any_tool(t, f) ==
    f \notin UNION {supported_formats(u) : u \in Tools}

\* "if output_format not in self.supported_formats"
format_unsupported(t, f) == f \notin supported_formats(t)

\* run_async up to its first await: the empty-code check, the format check,
\* then _render_async submits _render_sync to the tool's executor.
\* EChartsRenderTool.run_async makes the same empty check on "config" and
\* calls the base method.
run_async(r, t, c, f, ti) ==
    /\ ~Closing
    /\ load > 0
    /\ pc[r] = "new"
    /\ \A q \in Reqs : q < r => pc[q] # "new"
    /\ load' = load - 1
    /\ args' = [args EXCEPT ![r] = [tool |-> t, code |-> c, fmt |-> f, title |-> ti]]
    /\ IF strip_raises(t, c)
       THEN /\ pc' = [pc EXCEPT ![r] = "raised"]
            /\ steps' = [steps EXCEPT ![r] = <<"validate">>]
            /\ UNCHANGED <<ret, queue, work>>
       ELSE IF code_is_empty(c)
       THEN /\ pc' = [pc EXCEPT ![r] = "returned"]
            /\ ret' = [ret EXCEPT ![r] =
                   [success |-> FALSE, error |-> "empty_code",
                    keys |-> {"success", "error", "message"}
                             \cup (IF t = "echarts" THEN {"example"} ELSE {}),
                    size |-> 0, ref |-> NoRef]]
            /\ steps' = [steps EXCEPT ![r] = <<"validate">>]
            /\ UNCHANGED <<queue, work>>
       ELSE IF format_unsupported(t, f)
       THEN /\ pc' = [pc EXCEPT ![r] = "returned"]
            /\ ret' = [ret EXCEPT ![r] =
                   [success |-> FALSE, error |-> "unsupported_format",
                    keys |-> {"success", "error", "supported_formats", "message"},
                    size |-> 0, ref |-> NoRef]]
            /\ steps' = [steps EXCEPT ![r] = <<"validate", "format">>]
            /\ UNCHANGED <<queue, work>>
       ELSE /\ pc' = [pc EXCEPT ![r] = "awaiting"]
            /\ queue' = [queue EXCEPT ![t] = submit(@, r)]
            /\ work' = [work EXCEPT ![r] = "queued"]
            /\ steps' = [steps EXCEPT ![r] = <<"validate", "format", "dispatch">>]
            /\ UNCHANGED ret
    /\ UNCHANGED <<apart, temp, context, now, missing, jar, blocked, dir, fut, age, pAge, server, artifacts>>

\* The caller, which awaits each call before making the next, issues a
\* Render call with any of the enumerated arguments.
Call ==
    /\ \A q \in Reqs : pc[q] # "awaiting"
    /\ \E r \in Reqs, t \in Tools, f \in RequestFormats :
         \E c \in CodeKindsOf(t) : run_async(r, t, c, f, DefaultTitle)

\* One of several concurrent callers issues a well-formed PNG request to
\* one of the load tools.
CallLoad == \E r \in Reqs, t \in LoadTools : run_async(r, t, "ok", "png", DefaultTitle)

(* ----------------------------- _render_sync ---------------------------- *)

\* The availability flag _check_dependencies leaves on the tool instance
\* (_mmdc_available, _matplotlib_available, _seaborn_available,
\* _echarts_available, _folium_available); PlantUML sets none.
available(t, m) ==
    CASE t = "mermaid"    -> "mmdc" \notin m
      [] t = "matplotlib" -> "matplotlib_backend" \notin m
      [] t = "seaborn"    -> "seaborn" \notin m
      [] t = "echarts"    -> "node" \notin m /\ "echarts_npm" \notin m
      [] t = "folium"     -> "folium" \notin m
      [] OTHER            -> TRUE

\* The render tools the agent factories hand to their LlmAgent: a tool is
\* kept when getattr(tool, '_<name>_available', True) is true.  Mermaid's
\* flag is called _mmdc_available and PlantUML has none under that name, so
\* the default True keeps them; the data visualization agent always keeps
\* ECharts.
available_tools(m) ==
    {t \in Tools : t \in {"mermaid", "plantuml", "echarts"} \/ available(t, m)}

\* The availability test each _render_sync makes first, on the worker:
\* the flag(s) _check_dependencies set at construction.  ECharts tests its
\* flags only for PNG; Folium also needs selenium for PNG; PlantUML has no
\* flag set at construction.
dependency_missing(t, f, m) ==
    CASE t = "mermaid"    -> "mmdc" \in m
      [] t = "matplotlib" -> "matplotlib_backend" \in m
      [] t = "seaborn"    -> "seaborn" \in m
      [] t = "echarts"    -> f = "png" /\ ("node" \in m \/ "echarts_npm" \in m)
      [] t = "folium"     -> "folium" \in m \/ (f = "png" /\ "selenium" \in m)
      [] OTHER            -> FALSE

\* Where the tool puts the temporary files of one render:
\* tempfile.TemporaryDirectory(), or the project root (ECharts PNG).
working_dir(t) ==
    CASE t \in {"mermaid", "matplotlib", "folium", "plantuml"} -> "tempdir"
      [] t = "echarts" -> "project_root"
      [] OTHER -> "none"

\* The cwd= argument of the tool's subprocess.run: the temporary directory,
\* the project root, or none given (the child inherits the process's own).
child_cwd(t) ==
    CASE t \in {"mermaid", "matplotlib", "folium"} -> "tempdir"
      [] t = "echarts" -> "project_root"
      [] t = "plantuml" -> "inherited"
      [] OTHER -> "none"

\* The format of the bytes a finished render of tool t leaves in the output
\* it reads back, asked for format f.  The ECharts node script draws with
\* the SVG renderer when require('canvas') fails and writes the SVG string
\* to the file named for f; every other tool writes f.
output_bytes_format(t, f, m) ==
    IF t = "echarts" /\ f = "png" /\ "canvas" \in m THEN "svg" ELSE f

\* Mutant: Matplotlib preprocesses the code before testing its dependency.
render_sync_start_preprocess_first(t, c, f, m, j) ==
    IF t = "matplotlib" /\ c = "fence"
    THEN [on |-> "none", dir |-> "none", res |-> Failure("exception")]
    ELSE IF dependency_missing(t, f, m)
    THEN [on |-> "none", dir |-> "none", res |-> Failure("dep_unavailable")]
    ELSE CASE t = "seaborn" ->
                [on |-> "exec", dir |-> "none", res |-> NoRes]
           [] t = "echarts" /\ f = "html" ->
                [on |-> "none", dir |-> "none", res |-> Success(Bytes("html"))]
           [] t = "plantuml" /\ j # "yes" ->
                [on |-> "http", dir |-> "none", res |-> NoRes]
           [] OTHER ->
                [on |-> "child", dir |-> working_dir(t), res |-> NoRes]

\* _render_sync from its entry to the point where the worker thread blocks
\* (child process, in-process exec, HTTP request) or returns.  j is the
\* PlantUML probe result in force for this render.
\*   [on |-> what the worker blocks on, dir |-> its temporary files,
\*    res |-> the dict returned when on = "none"]
render_sync_start(t, c, f, m, j) ==
    IF dependency_missing(t, f, m)
    THEN [on |-> "none", dir |-> "none", res |-> Failure("dep_unavailable")]
    ELSE CASE t = "matplotlib" /\ c = "fence" ->
                \* _preprocess_code raises ValueError on code that is empty
                \* once the fences are stripped; caught inside the with block.
                [on |-> "none", dir |-> "none", res |-> Failure("exception")]
           [] t = "seaborn" ->
                [on |-> "exec", dir |-> "none", res |-> NoRes]
           [] t = "echarts" /\ f = "html" ->
                \* _generate_html_output builds the page in process.
                [on |-> "none", dir |-> "none", res |-> Success(Bytes("html"))]
           [] t = "plantuml" /\ j # "yes" ->
                [on |-> "http", dir |-> "none", res |-> NoRes]
           [] OTHER ->
                [on |-> "child", dir |-> working_dir(t), res |-> NoRes]

\* timestamp = str(int(time.time() * 1000)), which names the script and the
\* output file of an ECharts render: the value another render got if it
\* read the clock in the same millisecond, else a new one.  A timestamp is
\* named after the first render that got it.
timestamp(r, tm) ==
    IF tm.fresh = {} THEN r ELSE tm.path[CHOOSE q \in tm.fresh : TRUE]

\* A worker thread of the tool's executor takes the oldest queued work item
\* and runs _render_sync.  PlantUML first runs its dependency probe unless
\* an earlier render found both java and the jar.
WorkerStart(r) ==
    LET t == args[r].tool IN
    /\ ~Closing
    /\ work[r] = "queued"
    /\ queue[t] # <<>> /\ Head(queue[t]) = r
    /\ slot_free(t)
    /\ \E j \in (IF t = "plantuml" /\ jar # "yes" THEN {"yes", "no"} ELSE {jar}) :
         LET s == render_sync_start(t, args[r].code, args[r].fmt, missing, j) IN
         /\ jar' = j
         /\ queue' = [queue EXCEPT ![t] = Tail(@)]
         /\ steps' = [steps EXCEPT ![r] =
                IF s.on = "none" THEN Append(@, "execute")
                                 ELSE Append(Append(@, "execute"), "spawn")]
         /\ blocked' = [blocked EXCEPT ![r] = s.on]
         /\ dir' = [dir EXCEPT ![r] = s.dir]
         /\ pAge' = [pAge EXCEPT ![r] = 0]
         /\ server' = [server EXCEPT ![r] = IF s.on = "http" THEN 1 ELSE 0]
         /\ IF s.on = "none"
            THEN /\ work' = [work EXCEPT ![r] = "done"]
                 /\ fut' = [fut EXCEPT ![r] = s.res]
            ELSE /\ work' = [work EXCEPT ![r] = "running"]
                 /\ UNCHANGED fut
         /\ temp' = IF t = "echarts" /\ s.on = "child"
                    THEN [fresh |-> temp.fresh \cup {r},
                          path  |-> [temp.path EXCEPT ![r] = timestamp(r, temp)]]
                    ELSE temp
    /\ UNCHANGED <<apart, context, now, missing, load, args, pc, ret, age, artifacts>>

\* _render_sync returns res: the worker thread is free again, the with
\* block (or the finally clause) has removed the temporary files, and the
\* future holds the result.
Return(r, res) ==
    /\ work' = [work EXCEPT ![r] = "done"]
    /\ fut' = [fut EXCEPT ![r] = res]
    /\ blocked' = [blocked EXCEPT ![r] = "none"]
    /\ dir' = [dir EXCEPT ![r] = "none"]
    /\ pAge' = [pAge EXCEPT ![r] = 0]
    /\ server' = [server EXCEPT ![r] = 0]
    /\ age' = [age EXCEPT ![r] = IF pc[r] = "awaiting" THEN @ ELSE 0]
    /\ UNCHANGED steps

\* PlantUML: the local jar failed, _render_sync goes on to the online
\* service (_render_with_online_service), first server.
FallBackOnline(r) ==
    /\ blocked' = [blocked EXCEPT ![r] = "http"]
    /\ dir' = [dir EXCEPT ![r] = "none"]
    /\ pAge' = [pAge EXCEPT ![r] = 0]
    /\ server' = [server EXCEPT ![r] = 1]
    /\ steps' = [steps EXCEPT ![r] = Append(@, "spawn")]
    /\ UNCHANGED <<work, fut, age>>

ChildOutcomes == {"nonzero_exit", "no_output_file", "empty_file", "output"}

\* What _render_sync makes of a finished child: the return code, then
\* output_file.exists(), then the length of the bytes read.
child_result(o, t, f, m) ==
    CASE o = "nonzero_exit"   -> Failure("exec_failed")
      [] o = "no_output_file" -> Failure("no_output_file")
      [] o = "empty_file"     -> Failure("empty_output")
      [] o = "output"         -> Success(Bytes(output_bytes_format(t, f, m)))

\* The child process of r exits.
ChildExit(r, o) ==
    /\ ~Closing
    /\ work[r] = "running" /\ blocked[r] = "child"
    /\ LET res == child_result(o, args[r].tool, args[r].fmt, missing) IN
         IF args[r].tool = "plantuml" /\ ~res.success
         THEN FallBackOnline(r)
         ELSE Return(r, res)
    /\ UNCHANGED <<apart, temp, context, now, missing, jar, load, args, pc, ret, queue, artifacts>>

\* subprocess.run's own timeout expires: it kills the child and raises
\* TimeoutExpired, which _render_sync turns into a failure dict.
ChildTimeout(r) ==
    /\ ~Closing
    /\ work[r] = "running" /\ blocked[r] = "child"
    /\ pAge[r] >= subprocess_timeout(args[r].tool)
    /\ IF args[r].tool = "plantuml"
       THEN FallBackOnline(r)
       ELSE Return(r, Failure("timeout_subprocess"))
    /\ UNCHANGED <<apart, temp, context, now, missing, jar, load, args, pc, ret, queue, artifacts>>

ExecOutcomes == {"raises", "figure"}

\* Seaborn: exec() of the user code plus savefig; empty bytes raise
\* ValueError, every exception becomes a failure dict.
exec_result(o, f) ==
    CASE o = "raises" -> Failure("exception")
      [] o = "figure" -> Success(Bytes(f))

\* The in-process exec() of r comes back.  Code that is only fences leaves
\* the injected plt.figure() line, which runs and yields a figure.
ExecReturn(r, o) ==
    /\ ~Closing
    /\ work[r] = "running" /\ blocked[r] = "exec"
    /\ args[r].code = "fence" => o = "figure"
    /\ Return(r, exec_result(o, args[r].fmt))
    /\ UNCHANGED <<apart, temp, context, now, missing, jar, load, args, pc, ret, queue, artifacts>>

HttpOutcomes == {"ok_body", "ok_empty_body", "bad_status", "request_error"}

\* _render_with_online_service on one server's answer: status 200 returns
\* response.content as it is; anything else moves on to the next server.
http_result(o, f) ==
    CASE o = "ok_body"       -> Success(Bytes(f))
      [] o = "ok_empty_body" -> Success(Empty)
      [] OTHER               -> Failure("online_unavailable")

\* Mutant: the online service gives up after the first server that fails.
NextServer_give_up(r) == Return(r, Failure("online_unavailable"))

\* "continue" in the loop over PLANTUML_SERVERS: the next server in list
\* order, or the failure dict once the list is exhausted.
NextServer(r) ==
    IF server[r] < NumServers
    THEN /\ server' = [server EXCEPT ![r] = @ + 1]
         /\ pAge' = [pAge EXCEPT ![r] = 0]
         /\ steps' = [steps EXCEPT ![r] = Append(@, "spawn")]
         /\ UNCHANGED <<work, fut, blocked, dir, age>>
    ELSE Return(r, Failure("online_unavailable"))

\* The PlantUML server being tried answers (or the request fails).
HttpResponse(r, o) ==
    /\ ~Closing
    /\ work[r] = "running" /\ blocked[r] = "http"
    /\ IF http_result(o, args[r].fmt).success
       THEN Return(r, http_result(o, args[r].fmt))
       ELSE NextServer(r)
    /\ UNCHANGED <<apart, temp, context, now, missing, jar, load, args, pc, ret, queue, artifacts>>

\* requests.get's timeout expires: a RequestException, next server.
HttpTimeout(r) ==
    /\ ~Closing
    /\ work[r] = "running" /\ blocked[r] = "http"
    /\ pAge[r] >= RequestsTimeout
    /\ NextServer(r)
    /\ UNCHANGED <<apart, temp, context, now, missing, jar, load, args, pc, ret, queue, artifacts>>

(* ------------------- run_async after the render returns ---------------- *)

\* f"{title}_{int(time.time())}.{output_format}"
filename(ti, f) == [title |-> ti, stamp |-> now, fmt |-> f]

\* "filename.replace(' ', '_').replace(':', '-')" on the titles tried.
safe_filename(fn) == [fn EXCEPT !.title = IF @ = "a b" THEN "a_b" ELSE @]

\* Mutant: the local save reports the name it was given, not the path of
\* the file it wrote.
save_rendered_artifact_given_name(r, fn, d) ==
    IF context = "adk"
    THEN LET v == Cardinality({a \in artifacts : a.filename = fn}) IN
         [store |-> artifacts \cup
                      {[req |-> r, filename |-> fn, version |-> v, data |-> d]},
          ref |-> [filename |-> fn, version |-> v]]
    ELSE [store |-> {a \in artifacts : a.filename # safe_filename(fn)} \cup
                      {[req |-> r, filename |-> safe_filename(fn),
                        version |-> "local", data |-> d]},
          ref |-> [filename |-> fn, version |-> "local"]]

\* _save_rendered_artifact.  With a tool_context the artifact service
\* stores the bytes as the next version of the file name and returns the
\* version number; without one the bytes are written to the file of that
\* (sanitised) name, open(file_path, 'wb'), and the version is "local".
save_rendered_artifact(r, fn, d) ==
    IF context = "adk"
    THEN LET v == Cardinality({a \in artifacts : a.filename = fn}) IN
         [store |-> artifacts \cup
                      {[req |-> r, filename |-> fn, version |-> v, data |-> d]},
          ref |-> [filename |-> fn, version |-> v]]
    ELSE [store |-> {a \in artifacts : a.filename # safe_filename(fn)} \cup
                      {[req |-> r, filename |-> safe_filename(fn),
                        version |-> "local", data |-> d]},
          ref |-> [filename |-> safe_filename(fn), version |-> "local"]]

\* Mutant: a render that ended in an exception is not taken for a failure.
render_failed_unless_raised(res) == ~res.success /\ res.error # "exception"

\* Mutant: the success flag of the render result is not looked at.
render_failed_unchecked(res) == FALSE

\* "if not render_result['success']": the render failed, nothing is saved.
render_failed(res) == ~res.success

\* The awaited future is done: _render_async hands the dict back and
\* run_async either reports the failure or saves the bytes
\* (_save_rendered_artifact; saved = FALSE is an exception while saving).
Deliver(r) ==
    /\ ~Closing
    /\ pc[r] = "awaiting" /\ work[r] = "done"
    /\ pc' = [pc EXCEPT ![r] = "returned"]
    /\ age' = [age EXCEPT ![r] = 0]
    /\ IF render_failed(fut[r])
       THEN /\ ret' = [ret EXCEPT ![r] = handle_render_error(fut[r].error)]
            /\ UNCHANGED <<steps, artifacts>>
       ELSE /\ steps' = [steps EXCEPT ![r] = Append(@, "save")]
            /\ \E saved \in BOOLEAN :
                 IF saved
                 THEN LET s == save_rendered_artifact(
                                   r, filename(args[r].title, args[r].fmt), fut[r].data)
                      IN
                      /\ artifacts' = s.store
                      /\ ret' = [ret EXCEPT ![r] =
                             [success |-> TRUE, error |-> "none",
                              keys |-> {"success", "filename", "version", "size",
                                        "format", "dimensions", "tool_name", "message"},
                              size |-> Len(fut[r].data), ref |-> s.ref]]
                 ELSE /\ ret' = [ret EXCEPT ![r] = handle_render_error("save_failed")]
                      /\ UNCHANGED artifacts
    /\ UNCHANGED <<apart, temp, context, now, missing, jar, load, args, queue, work, blocked, dir, fut,
                   pAge, server>>

\* What cancelling the awaited future does to the work item: a queued item
\* is dropped from the executor's queue, a running one cannot be stopped
\* (concurrent.futures cannot cancel a running call) and goes on.
abandon(w) == IF w = "queued" THEN "dropped" ELSE w

AbandonWork(r) ==
    /\ work' = [work EXCEPT ![r] = abandon(@)]
    /\ queue' = [t \in Tools |->
                   IF abandon(work[r]) = "dropped" THEN Remove(queue[t], r)
                                                   ELSE queue[t]]
    /\ age' = [age EXCEPT ![r] = IF abandon(work[r]) = "running" THEN @ ELSE 0]

\* asyncio.wait_for's timeout fires: the future is cancelled,
\* _render_async returns its timeout dict and run_async wraps it with
\* _handle_render_error.
WaitForExpire(r) ==
    /\ ~Closing
    /\ pc[r] = "awaiting" /\ work[r] \in {"queued", "running"}
    /\ age[r] >= WaitForTimeout
    /\ pc' = [pc EXCEPT ![r] = "returned"]
    /\ ret' = [ret EXCEPT ![r] = handle_render_error("timeout_wait_for")]
    /\ AbandonWork(r)
    /\ UNCHANGED <<apart, temp, context, now, missing, jar, load, args, blocked, dir, fut, pAge, server,
                   steps, artifacts>>

\* The task awaiting run_async is cancelled: CancelledError passes through
\* wait_for (which cancels the future) and through "except Exception".
Cancel(r) ==
    /\ ~Closing
    /\ pc[r] = "awaiting"
    /\ pc' = [pc EXCEPT ![r] = "cancelled"]
    /\ AbandonWork(r)
    /\ UNCHANGED <<apart, temp, context, now, missing, jar, load, args, ret, blocked, dir, fut, pAge,
                   server, steps, artifacts>>

\* run_async has returned (or raised) and no worker thread
\* still runs the request: the tool keeps nothing of it.  The returned dict
\* is the caller's; only saved artifacts outlive the call.
Forget(r) ==
    /\ pc[r] \in {"returned", "cancelled", "raised"}
    /\ work[r] # "running"
    /\ pc' = [pc EXCEPT ![r] = "closed"]
    /\ args' = [args EXCEPT ![r] = NoArgs]
    /\ ret' = [ret EXCEPT ![r] = NoRet]
    /\ fut' = [fut EXCEPT ![r] = NoRes]
    /\ work' = [work EXCEPT ![r] = "none"]
    /\ steps' = [steps EXCEPT ![r] = <<>>]
    /\ temp' = [fresh |-> temp.fresh \ {r}, path |-> [temp.path EXCEPT ![r] = 0]]
    /\ UNCHANGED <<apart, context, now, missing, jar, load, queue, blocked, dir, age, pAge,
                   server, artifacts>>

(* -------------------------------- time --------------------------------- *)

\* A step that the event loop or the executor takes without delay is due.
Due ==
    \E r \in Reqs :
        \/ pc[r] = "awaiting" /\ (work[r] = "done" \/ age[r] >= WaitForTimeout)
        \/ blocked[r] = "child" /\ pAge[r] >= subprocess_timeout(args[r].tool)
        \/ blocked[r] = "http" /\ pAge[r] >= RequestsTimeout
        \/ blocked[r] = "exec" /\ args[r].code = "fence"
        \/ /\ work[r] = "queued"
           /\ Head(queue[args[r].tool]) = r
           /\ slot_free(args[r].tool)

\* Something has been saved under the current value of int(time.time()).
SavedThisSecond == \E a \in artifacts : a.filename.stamp = now

\* The clock passes a second boundary.
SecondPasses ==
    /\ ~Closing
    /\ SavedThisSecond
    /\ now' = now + 1
    /\ UNCHANGED <<apart, temp, context, missing, jar, load, args, pc, ret, queue, work,
                   blocked, dir, fut, age, pAge, server, steps, artifacts>>

\* The clock passes a millisecond boundary.
MilliPasses ==
    /\ ~Closing
    /\ temp.fresh # {}
    /\ temp' = [temp EXCEPT !.fresh = {}]
    /\ UNCHANGED <<render, apart>>

\* 30 seconds pass.
Tick ==
    /\ ~Closing
    /\ ~Due
    /\ \E r \in Reqs : Active(r)
    /\ age' = [r \in Reqs |->
                 IF Active(r) THEN Min(age[r] + 1, WaitForTimeout + 1) ELSE age[r]]
    /\ pAge' = [r \in Reqs |->
                 IF blocked[r] \in {"child", "http"} THEN pAge[r] + 1 ELSE pAge[r]]
    /\ now' = IF SavedThisSecond THEN now + 1 ELSE now
    /\ temp' = [temp EXCEPT !.fresh = {}]
    /\ UNCHANGED <<apart, context, missing, jar, load, args, pc, ret, queue, work, blocked, dir,
                   fut, server, steps, artifacts>>

(* ---------------------------- specifications --------------------------- *)

Worker ==
    \E r \in Reqs :
        \/ WorkerStart(r)
        \/ \E o \in ChildOutcomes : ChildExit(r, o)
        \/ ChildTimeout(r)
        \/ \E o \in ExecOutcomes : ExecReturn(r, o)
        \/ \E o \in HttpOutcomes : HttpResponse(r, o)
        \/ HttpTimeout(r)

Caller ==
    \E r \in Reqs : Deliver(r) \/ WaitForExpire(r) \/ Cancel(r)


Close == \E r \in Reqs : Forget(r)

Next == Close \/ Call \/ Worker \/ Caller \/ Tick

\* The worker steps of the load tools' renders.
WorkerLoad ==
    \E r \in Reqs :
        \/ WorkerStart(r)
        \/ \E o \in ChildOutcomes : ChildExit(r, o)
        \/ ChildTimeout(r)
        \/ \E o \in ExecOutcomes : ExecReturn(r, o)

NextLoad == Close \/ CallLoad \/ WorkerLoad \/ Caller \/ Tick

\* Any deployment, NReq calls made one after another.
Spec == Init /\ [][Next]_vars

\* The caller passes any args dict: the code may also be missing, None or
\* not a string.
CallArgs ==
    /\ \A q \in Reqs : pc[q] # "awaiting"
    /\ \E r \in Reqs, t \in Tools, f \in RequestFormats :
         \E c \in CodeKindsOf(t) \cup ArgKinds : run_async(r, t, c, f, DefaultTitle)

NextArgs == Close \/ CallArgs \/ Worker \/ Caller \/ Tick

SpecArgs == Init /\ [][NextArgs]_vars

\* Every dependency present, NLoad calls made concurrently.
InitLoad == InitWith(NLoad) /\ missing = {} /\ context = "adk"

SpecLoad == InitLoad /\ [][NextLoad]_vars

\* The caller of the store specification issues a well-formed Seaborn PNG
\* request with one of the titles, after the call before it has returned.
CallStore ==
    /\ \A q \in Reqs : pc[q] # "awaiting"
    /\ \E r \in Reqs, ti \in Titles : run_async(r, "seaborn", "ok", "png", ti)

\* The worker steps of Seaborn renders.
WorkerStore ==
    \E r \in Reqs : WorkerStart(r) \/ \E o \in ExecOutcomes : ExecReturn(r, o)

NextStore == Close \/ CallStore \/ WorkerStore \/ Caller \/ Tick \/ SecondPasses

\* Every dependency present, with or without a tool_context, NStore calls
\* made one after another, with the clock of the file names running.
InitStore == InitWith(NStore) /\ missing = {}

SpecStore == InitStore /\ [][NextStore]_vars

\* One of several concurrent callers issues a well-formed PNG request to
\* the Seaborn tool.
CallQueue == \E r \in Reqs : run_async(r, "seaborn", "ok", "png", DefaultTitle)

NextQueue == Close \/ CallQueue \/ WorkerStore \/ Caller \/ Tick

\* Every dependency present, NQueue concurrent calls to one tool, more than
\* its executor has workers.
InitQueue == InitWith(NQueue) /\ missing = {} /\ context = "adk"

SpecQueue == InitQueue /\ [][NextQueue]_vars

\* One of several concurrent callers issues a well-formed PNG request to
\* the ECharts tool.
CallTemp == \E r \in Reqs : run_async(r, "echarts", "ok", "png", DefaultTitle)

\* The worker steps of an ECharts PNG render.
WorkerTemp ==
    \E r \in Reqs :
        \/ WorkerStart(r)
        \/ \E o \in ChildOutcomes : ChildExit(r, o)
        \/ ChildTimeout(r)

NextTemp == Close \/ CallTemp \/ WorkerTemp \/ Caller \/ Tick \/ MilliPasses

\* Every dependency present, NTemp concurrent calls to the ECharts tool.
InitTemp == InitWith(NTemp) /\ missing = {} /\ context = "adk"

SpecTemp == InitTemp /\ [][NextTemp]_vars

\* What the event loop, the executor and the clock are bound to do: hand a
\* finished call back, deliver a finished future or fire the wait_for
\* deadline, start a queued item on a free worker, let time pass.  Nothing
\* bounds exec() of the user's code, so its return is not among them.
FairQueue ==
    /\ WF_vars(Close)
    /\ WF_vars(\E r \in Reqs : Deliver(r) \/ WaitForExpire(r))
    /\ WF_vars(\E r \in Reqs : WorkerStart(r))
    /\ WF_vars(Tick)

SpecQueueFair == SpecQueue /\ FairQueue

(* ---------------------------- preprocessing ---------------------------- *)

\* Chart code is a sequence of tokens: lines or attributes, named for what
\* the preprocessing functions look for in them.

FirstIndex(s, x) == CHOOSE i \in 1..Len(s) : s[i] = x /\ \A j \in 1..(i - 1) : s[j] # x

InsertAfter(s, i, b) == SubSeq(s, 1, i) \o b \o SubSeq(s, i + 1, Len(s))

\* The font settings _preprocess_dot_code injects: graph [fontname="..."];
\* (and the same for node and edge).
font_attributes == <<"graph [", "fontname", "];">>

\* GraphvizRenderTool._preprocess_dot_code: wrap code that lacks a graph
\* declaration, remove every fontname="..." attribute, inject the font
\* settings after the first opening brace.
preprocess_dot_code(c) ==
    LET declared == c # <<>> /\ c[1] \in {"graph", "digraph"}
        c1 == IF declared THEN c
              ELSE <<IF "edge" \in Range(c) THEN "digraph" ELSE "graph", "{">>
                   \o c \o <<"}">>
        c2 == SelectSeq(c1, LAMBDA x : x # "fontname")
    IN  IF "{" \in Range(c2)
        THEN InsertAfter(c2, FirstIndex(c2, "{"), font_attributes)
        ELSE c2

\* PlantUMLRenderTool._preprocess_plantuml_code: add @startuml and @enduml
\* where missing, insert the skinparam line after the first line unless
\* one of the first eight lines has it.
preprocess_plantuml_code(c) ==
    LET c1 == IF c = <<>> \/ c[1] # "@startuml" THEN <<"@startuml">> \o c ELSE c
        c2 == IF c1[Len(c1)] # "@enduml" THEN Append(c1, "@enduml") ELSE c1
    IN  IF /\ Len(c2) > 1
           /\ "skinparam defaultFontName" \notin Range(SubSeq(c2, 1, Min(8, Len(c2))))
        THEN InsertAfter(c2, 1, <<"skinparam defaultFontName">>)
        ELSE c2

\* D3RenderTool._preprocess_user_code: strip a leading await, point
\* d3.select("body") at the container, and put the chartWidth/chartHeight
\* declarations first unless the code has "const width" (or let, var).
preprocess_user_code(c) ==
    LET c1 == [i \in 1..Len(c) |->
                 CASE c[i] = "await stmt"  -> "stmt"
                   [] c[i] = "select body" -> "select container"
                   [] OTHER                -> c[i]]
    IN  IF "const width" \notin Range(c1)
        THEN <<"const chartWidth", "const chartHeight">> \o c1
        ELSE c1

PreTools == {"graphviz", "plantuml", "d3"}

preprocess(t, c) ==
    CASE t = "graphviz" -> preprocess_dot_code(c)
      [] t = "plantuml" -> preprocess_plantuml_code(c)
      [] t = "d3"       -> preprocess_user_code(c)

\* Sequences over S of length at most n.
SeqUpTo(S, n) == UNION {[1..k -> S] : k \in 0..n}

\* Fence-free, well-formed code of each language, with at most MaxCode
\* tokens between its delimiters.
WellFormed(t) ==
    CASE t = "graphviz" ->
            {<<"digraph", "{">> \o b \o <<"}">> : b \in SeqUpTo({"edge", "fontname"}, MaxCode)}
      [] t = "plantuml" ->
            {<<"@startuml">> \o b \o <<"@enduml">> :
                b \in SeqUpTo({"stmt", "skinparam defaultFontName"}, MaxCode)}
      [] t = "d3" ->
            SeqUpTo({"stmt", "const width", "select container"}, MaxCode) \ {<<>>}

\* The code goes through its tool's preprocessing, and the result goes
\* through it again.
Preprocess ==
    /\ pre.passes < 2
    /\ pre' = IF pre.passes = 0
              THEN [pre EXCEPT !.once = preprocess(pre.tool, pre.code), !.passes = 1]
              ELSE [pre EXCEPT !.twice = preprocess(pre.tool, pre.once), !.passes = 2]
    /\ UNCHANGED <<render, std, temp, sse>>

InitPreprocess ==
    /\ InitRender(0) /\ context = "adk" /\ missing = {}
    /\ std = StdInit /\ temp = TempInit /\ sse = SseInit
    /\ \E t \in PreTools : \E c \in WellFormed(t) :
          pre = [tool |-> t, code |-> c, once |-> <<>>, twice |-> <<>>, passes |-> 0]

NextPreprocess == Preprocess

SpecPreprocess == InitPreprocess /\ [][NextPreprocess]_vars

(* ------------------------- _execute_plotly_code ------------------------ *)

\* Worker w moves from one statement of _execute_plotly_code to the next;
\* the interpreter may switch threads between any two statements.
Goto(w, from, to) ==
    /\ std.at[w] = from
    /\ std' = [std EXCEPT !.at[w] = to]

\* old_stdout = sys.stdout
SaveStdout(w) ==
    /\ std.at[w] = "entry"
    /\ std' = [std EXCEPT !.old_stdout[w] = std.sys_stdout, !.at[w] = "save_stderr"]
    /\ UNCHANGED <<render, pre, temp, sse>>

\* old_stderr = sys.stderr
SaveStderr(w) ==
    /\ std.at[w] = "save_stderr"
    /\ std' = [std EXCEPT !.old_stderr[w] = std.sys_stderr, !.at[w] = "set_stdout"]
    /\ UNCHANGED <<render, pre, temp, sse>>

\* sys.stdout = stdout_buffer
RedirectStdout(w) ==
    /\ std.at[w] = "set_stdout"
    /\ std' = [std EXCEPT !.sys_stdout = buffer(w), !.at[w] = "set_stderr"]
    /\ UNCHANGED <<render, pre, temp, sse>>

\* sys.stderr = stderr_buffer
RedirectStderr(w) ==
    /\ std.at[w] = "set_stderr"
    /\ std' = [std EXCEPT !.sys_stderr = buffer(w), !.at[w] = "exec"]
    /\ UNCHANGED <<render, pre, temp, sse>>

\* exec(code, exec_globals, exec_locals) and the search for the figure:
\* whatever it returns or raises, the finally clause comes next.
ExecCode(w) ==
    /\ Goto(w, "exec", "restore_stdout")
    /\ UNCHANGED <<render, pre, temp, sse>>

\* finally: sys.stdout = old_stdout
RestoreStdout(w) ==
    /\ std.at[w] = "restore_stdout"
    /\ std' = [std EXCEPT !.sys_stdout = std.old_stdout[w], !.at[w] = "restore_stderr"]
    /\ UNCHANGED <<render, pre, temp, sse>>

\* finally: sys.stderr = old_stderr
RestoreStderr(w) ==
    /\ std.at[w] = "restore_stderr"
    /\ std' = [std EXCEPT !.sys_stderr = std.old_stderr[w], !.at[w] = "finished"]
    /\ UNCHANGED <<render, pre, temp, sse>>

NextPlotly ==
    \E w \in Workers :
        \/ SaveStdout(w)
        \/ SaveStderr(w)
        \/ RedirectStdout(w)
        \/ RedirectStderr(w)
        \/ ExecCode(w)
        \/ RestoreStdout(w)
        \/ RestoreStderr(w)

\* Two Plotly renders, one on each worker thread of the tool's executor.
InitPlotly == InitWith(0) /\ context = "adk" /\ missing = {}

SpecPlotly == InitPlotly /\ [][NextPlotly]_vars

(* ------------------------- main.py event streams ----------------------- *)

\* The finally clause of event_generator: the entry stored under the user's
\* key, whichever connection made it, is marked disconnected and deleted.
cleanup(s, u) ==
    IF s.active_sessions[u] # 0
    THEN [s EXCEPT !.connected[s.active_sessions[u]] = FALSE,
                   !.active_sessions[u] = 0]
    ELSE s

\* GET /events/{u}: a new entry with a new queue replaces whatever is stored
\* under u's key, and the response starts a new event_generator.
sse_endpoint(u) ==
    /\ sse.opened < NConn
    /\ LET k == sse.opened + 1
       IN  sse' = [sse EXCEPT !.active_sessions[u] = k,
                              !.connected[k] = TRUE,
                              !.message_queue[k] = <<>>,
                              !.stream[k] = [user |-> u, at |-> "opened", session_data |-> 0],
                              !.opened = k]
    /\ UNCHANGED <<render, pre, std, temp>>

\* The response begins to iterate event_generator: it looks its session_data
\* up under the user's key; a missing key is a KeyError, which ends the
\* generator through its finally clause.
StartStream(k) ==
    /\ sse.stream[k].at = "opened"
    /\ LET u == sse.stream[k].user
       IN  sse' = IF sse.active_sessions[u] = 0
                  THEN [sse EXCEPT !.stream[k].at = "closed"]
                  ELSE [sse EXCEPT !.stream[k].session_data = sse.active_sessions[u],
                                   !.stream[k].at = "top"]
    /\ UNCHANGED <<render, pre, std, temp>>

\* while session_data["connected"]: the generator waits for a message, or
\* leaves the loop and runs its finally clause.
LoopTest(k) ==
    /\ sse.stream[k].at = "top"
    /\ sse' = IF sse.connected[sse.stream[k].session_data]
              THEN [sse EXCEPT !.stream[k].at = "waiting"]
              ELSE [cleanup(sse, sse.stream[k].user) EXCEPT !.stream[k].at = "closed"]
    /\ UNCHANGED <<render, pre, std, temp>>

\* message_queue.get() returns a message and the stream answers it.
Receive(k) ==
    /\ sse.stream[k].at = "waiting"
    /\ LET d == sse.stream[k].session_data
       IN  /\ sse.message_queue[d] # <<>>
           /\ sse' = [sse EXCEPT !.message_queue[d] = Tail(@),
                                  !.got[k] = Append(@, Head(sse.message_queue[d])),
                                  !.stream[k].at = "top"]
    /\ UNCHANGED <<render, pre, std, temp>>

\* No message within 30 seconds: the stream sends a heartbeat and goes round
\* the loop.
Heartbeat(k) ==
    /\ sse.stream[k].at = "waiting"
    /\ sse.message_queue[sse.stream[k].session_data] = <<>>
    /\ sse' = [sse EXCEPT !.stream[k].at = "top"]
    /\ UNCHANGED <<render, pre, std, temp>>

\* The client closes stream k: the generator is cancelled where it is
\* suspended and its finally clause runs.
Disconnect(k) ==
    /\ sse.stream[k].at \in {"top", "waiting"}
    /\ sse' = [cleanup(sse, sse.stream[k].user) EXCEPT !.stream[k].at = "closed"]
    /\ UNCHANGED <<render, pre, std, temp>>

MimeTypes == {"text/plain", "audio/pcm"}

\* POST /send/{u}: refused when u has no key in active_sessions or the
\* message is not text; otherwise the message is put on the queue of the
\* entry stored under u's key.
send_message_endpoint(u, mime_type) ==
    /\ sse.sent < MaxSent
    /\ sse' = IF sse.active_sessions[u] = 0 \/ mime_type # "text/plain"
              THEN [sse EXCEPT !.reply[u] = "failed", !.sent = @ + 1]
              ELSE [sse EXCEPT !.message_queue[sse.active_sessions[u]] =
                                   Append(@, sse.sent + 1),
                               !.reply[u] = "sent",
                               !.sent = @ + 1]
    /\ UNCHANGED <<render, pre, std, temp>>

NextSse ==
    \/ \E u \in Users : sse_endpoint(u)
    \/ \E k \in Conns : StartStream(k)
    \/ \E k \in Conns : LoopTest(k)
    \/ \E k \in Conns : Receive(k)
    \/ \E k \in Conns : Heartbeat(k)
    \/ \E k \in Conns : Disconnect(k)
    \/ \E u \in Users, m \in MimeTypes : send_message_endpoint(u, m)

InitSse == InitWith(0) /\ context = "adk" /\ missing = {}

SpecSse == InitSse /\ [][NextSse]_vars

(* ------------------------------- claims -------------------------------- *)

\* Request r has been issued and its call is not yet closed.
Issued(r) == args[r].tool # "none"

Blank(r) == args[r].code = "blank"

Unsupported(r) == args[r].fmt \notin supported_formats(args[r].tool)

Saved(r) == \E a \in artifacts : a.req = r

\* C1: for a backend whose availability flag is false, _render_sync is never
\* invoked on a worker for any request to it.
C1_UnavailableNeverExecuted ==
    \A r \in Reqs :
        (Issued(r) /\ ~available(args[r].tool, missing))
            => "execute" \notin Range(steps[r])

\* C2: once the timeout result has been returned for a request, no work
\* unit of that request is still running.
C2_TimeoutTerminatesWork ==
    \A r \in Reqs :
        (pc[r] = "returned" /\ ret[r].error = "timeout_wait_for")
            => work[r] # "running"

\* C3: the executions running at the same time, over all backends, never
\* number more than the pool size.
C3_SharedPoolBound ==
    Cardinality({r \in Reqs : work[r] = "running"}) <= MaxWorkers

\* C4: every successful result carries non-empty bytes, and no artifact is
\* saved from empty output.
C4_SuccessHasBytes ==
    /\ \A r \in Reqs : ret[r].success => ret[r].size > 0
    /\ \A a \in artifacts : a.data # Empty

C6_ShortCircuit ==
    \A r \in Reqs :
        /\ ret[r].error = "empty_code" => steps[r] = <<"validate">>
        /\ ret[r].error = "unsupported_format" => steps[r] = <<"validate", "format">>
        /\ fut[r].error = "dep_unavailable" => "spawn" \notin Range(steps[r])
        /\ "save" \in Range(steps[r]) =>
              /\ fut[r].success
              /\ SubSeq(steps[r], 1, 4) = <<"validate", "format", "dispatch", "execute">>
              /\ steps[r][Len(steps[r])] = "save"
              /\ Cardinality({i \in 1..Len(steps[r]) : steps[r][i] = "save"}) = 1
        /\ (pc[r] \in {"returned", "cancelled"} /\ ~fut[r].success)
              => ("save" \notin Range(steps[r]) /\ ~Saved(r))
        /\ (Issued(r) /\ Saved(r)) => "save" \in Range(steps[r])
        /\ ret[r].error = "save_failed" => ~Saved(r)

\* An execution was rejected (the child exited non-zero) and the call
\* returned that failure without saving.
C6_Witness ==
    \E r \in Reqs :
        /\ pc[r] = "returned" /\ ret[r].error = "exec_failed"
        /\ "spawn" \in Range(steps[r])

C8_SingleDeadline ==
    \A r \in Reqs :
        /\ (work[r] = "running" /\ pc[r] # "cancelled") => age[r] <= WaitForTimeout
        /\ blocked[r] = "child" =>
              (age[r] - pAge[r]) + subprocess_timeout(args[r].tool) <= WaitForTimeout

\* C9: when a cancelled call has returned, its request is neither queued
\* nor running and its temporary files are gone.
C9_CancelStopsWork ==
    \A r \in Reqs :
        pc[r] = "cancelled" =>
            /\ work[r] \notin {"queued", "running"}
            /\ dir[r] = "none"

\* C10: every child process runs in a temporary directory created for its
\* request, and no temporary files of a request are left once its
\* execution has completed.
C10_FreshWorkingDirectory ==
    \A r \in Reqs :
        /\ blocked[r] = "child" =>
              /\ dir[r] = "tempdir"
              /\ child_cwd(args[r].tool) = "tempdir"
        /\ work[r] # "running" => dir[r] = "none"

\* C11: no error is dropped between the backend and the caller, and the
\* returned error tells a timeout from a failure: when the child process of
\* a request ends, its outcome is the result of _render_sync; a failure the
\* future holds is returned with its own error; and the timeout error is
\* returned exactly when the call ends without a result of _render_sync.
C11_ErrorsKeptAndDistinct ==
    [][\A r \in Reqs :
          /\ (blocked[r] = "child" /\ blocked'[r] # "child") => fut'[r] # NoRes
          /\ (pc[r] = "awaiting" /\ pc'[r] = "returned") =>
                /\ (work[r] = "done" /\ ~fut[r].success)
                      => ret'[r].error = fut[r].error
                /\ ret'[r].error = "timeout_wait_for" <=> work[r] # "done"
      ]_vars

\* Number of children, in-process executions and HTTP requests started
\* for request r.
Attempts(r) == Cardinality({i \in 1..Len(steps[r]) : steps[r][i] = "spawn"})

\* C12: within one request the rendering is attempted at most once; a
\* failed attempt is not followed by another one.
C12_AtMostOneAttempt ==
    \A r \in Reqs : Attempts(r) <= 1

\* C13: the artifact store is append-only: no step removes or replaces an
\* artifact saved before it, so every saved artifact stays retrievable
\* under its file name and version with its bytes.
C13_AppendOnly ==
    [][\A a \in artifacts : a \in artifacts']_vars

\* What fetching a reference (file name and version) yields: the bytes
\* stored under it.
fetch(ref) ==
    {a.data : a \in {b \in artifacts :
                       b.filename = ref.filename /\ b.version = ref.version}}

\* C14: when a render has returned success, the artifact named by the
\* returned file name and version holds exactly the bytes _render_sync
\* produced for the request, and the reported size is their length.
C14_RoundTrip ==
    \A r \in Reqs :
        ret[r].success =>
            /\ fetch(ret[r].ref) = {fut[r].data}
            /\ ret[r].size = Len(fut[r].data)

\* A render saved without a tool_context under a title that the local
\* save rewrites has returned success, after an earlier artifact was saved.
C14_Witness ==
    \E r \in Reqs :
        /\ ret[r].success /\ context = "local" /\ args[r].title = "a b"
        /\ \E a \in artifacts : a.req # r

\* The position of request r in the life of a Render call, read from the
\* awaiting coroutine, the executor's work item and the returned dict.
State(r) ==
    CASE pc[r] \in {"new", "closed"} -> "None"
      [] pc[r] = "awaiting" -> IF work[r] = "queued" THEN "Pending" ELSE "Running"
      [] pc[r] = "cancelled" -> "Cancelled"
      [] pc[r] = "returned" ->
            IF ret[r].success THEN "Succeeded"
            ELSE IF ret[r].error \in {"timeout_wait_for", "timeout_subprocess"}
                 THEN "TimedOut"
                 ELSE "Failed"

Terminal == {"Succeeded", "Failed", "TimedOut"}

\* The steps of the state machine Pending -> Running -> terminal; a call
\* begins in Pending (or is refused at once) and a terminal state ends only
\* with the call's record.
MachineSteps ==
    {<<"None", "Pending">>, <<"None", "Failed">>, <<"Pending", "Running">>}
    \cup {<<"Running", x>> : x \in Terminal}
    \cup {<<x, "None">> : x \in Terminal}

\* Steps the code takes besides: the deadline of asyncio.wait_for ends a
\* request that is still queued, and cancelling the awaiting task ends a
\* queued or running request with CancelledError and no result.
QueueSteps ==
    {<<"Pending", "TimedOut">>, <<"Pending", "Cancelled">>,
     <<"Running", "Cancelled">>, <<"Cancelled", "None">>}

\* C15 as stated: every request moves Pending -> Running -> exactly one of
\* Succeeded, Failed, TimedOut, and stays in that terminal state.
C15_PendingRunningTerminal ==
    [][\A r \in Reqs :
          /\ State(r) # State(r)' => <<State(r), State(r)'>> \in MachineSteps
          /\ (State(r) \in Terminal /\ State(r)' = State(r)) => ret'[r] = ret[r]
      ]_vars

\* C15, amended: a request leaves Pending for Running only when it is the
\* oldest queued item of its tool and fewer than MaxWorkers requests of the
\* tool are running; from Running it reaches exactly one of Succeeded,
\* Failed, TimedOut; a queued request may also go from Pending straight to
\* TimedOut (deadline while queued), and a queued or running request may be
\* cancelled by its caller; a terminal state and its result never change.
C15_StateMachine ==
    [][\A r \in Reqs :
          /\ State(r) # State(r)' =>
                <<State(r), State(r)'>> \in MachineSteps \cup QueueSteps
          /\ (State(r) = "Pending" /\ State(r)' = "Running") =>
                /\ Head(queue[args[r].tool]) = r
                /\ Cardinality({q \in Reqs : /\ work[q] = "running"
                                             /\ args[q].tool = args[r].tool})
                     < MaxWorkers
          /\ (State(r) \in Terminal /\ State(r)' = State(r)) => ret'[r] = ret[r]
      ]_vars

\* A request has timed out in the queue, never having run, while both
\* worker threads of its tool are busy.
C15_Witness ==
    \E r \in Reqs :
        /\ State(r) = "TimedOut" /\ work[r] = "dropped"
        /\ Cardinality(Running(args[r].tool)) = MaxWorkers

\* C16: a valid request submitted while every worker of its tool is busy is
\* queued, not refused; and a queued request stays queued until a worker
\* takes it, its wait_for deadline ends it with the timeout error, or its
\* caller cancels it.
C16_SaturationNeverRejects ==
    [][\A r \in Reqs :
          /\ ( /\ pc[r] = "new" /\ pc'[r] # "new"
               /\ Cardinality(Running(args'[r].tool)) = MaxWorkers
               /\ ~code_is_empty(args'[r].code)
               /\ args'[r].fmt \in supported_formats(args'[r].tool) )
             => /\ pc'[r] = "awaiting" /\ work'[r] = "queued"
                /\ r \in Range(queue'[args'[r].tool])
          /\ work[r] = "queued"
             => \/ /\ pc'[r] = "awaiting" /\ work'[r] = "queued"
                   /\ r \in Range(queue'[args[r].tool])
                \/ /\ work'[r] \in {"running", "done"}
                   /\ Cardinality(Running(args[r].tool)) < MaxWorkers
                \/ /\ pc'[r] = "returned" /\ age[r] >= WaitForTimeout
                   /\ ret'[r].error = "timeout_wait_for"
                \/ pc'[r] = "cancelled"
      ]_vars

\* A request has waited in the queue for a while with both workers of its
\* tool busy.
C16_Witness ==
    \E r \in Reqs :
        /\ pc[r] = "awaiting" /\ work[r] = "queued" /\ age[r] >= 1
        /\ Cardinality(Running(args[r].tool)) = MaxWorkers

\* C17: what a backend can do is settled at construction: no step of a render
\* runs a dependency probe or changes what the probes found (the missing
\* dependencies, PlantUML's local renderer).
C17_CapabilityFixedAtConstruction ==
    [][missing' = missing /\ jar' = jar]_vars

\* C18: a backend whose dependency probe failed is still registered with
\* its agent (callable by name), with its availability flag false.
C18_UnavailableStaysRegistered ==
    \A t \in Tools : ~available(t, missing) => t \in available_tools(missing)

\* The keys under which a returned dict would carry the request's
\* parameters, by the names run_async reads them from args.
ParameterKeys == {"output_format", "title", "width", "height"}

\* C19: every error dict run_async returns carries the request's code and
\* its parameters.
C19_ErrorCarriesRequest ==
    \A r \in Reqs :
        (pc[r] = "returned" /\ ~ret[r].success) =>
            /\ "fallback_code" \in ret[r].keys
            /\ ret[r].keys \cap ParameterKeys # {}

\* C20: the dict returned for a request to a tool whose dependency is
\* missing carries the installation guide, and nothing was rendered for it.
C20_UnavailableCarriesHint ==
    \A r \in Reqs :
        (pc[r] = "returned" /\ ret[r].error = "dep_unavailable") =>
            /\ "installation_guide" \in ret[r].keys
            /\ "spawn" \notin Range(steps[r])
            /\ ~Saved(r)

\* C21: code that is empty once whitespace and code-fence markers are
\* removed is refused: it is not run by the tool, the call does not succeed
\* and nothing is saved for it.
C21_EmptyCodeRejected ==
    \A r \in Reqs :
        args[r].code \in {"blank", "fence"} =>
            /\ blocked[r] \notin {"exec", "child", "http"}
            /\ ~ret[r].success
            /\ ~Saved(r)

\* C22: a request to an available tool in a format the tool advertises is
\* not refused for its format, and the bytes of a successful render are in
\* the format asked for.
C22_AdvertisedFormatProduced ==
    \A r \in Reqs :
        ( /\ pc[r] = "returned"
          /\ available(args[r].tool, missing)
          /\ args[r].fmt \in supported_formats(args[r].tool) )
        => /\ ret[r].error # "unsupported_format"
           /\ ret[r].success => fut[r].data \in {Empty, Bytes(args[r].fmt)}

\* C23: preprocessing code that is already fence-free and well formed a
\* second time changes nothing: Preprocess(Preprocess(x)) = Preprocess(x).
C23_PreprocessIdempotent ==
    pre.passes = 2 => pre.twice = pre.once

C25_TimedOutWorkerReleased ==
    \A r \in Reqs :
        (pc[r] = "returned" /\ ret[r].error = "timeout_wait_for" /\ work[r] = "running")
            ~> (work[r] # "running")

\* C26: an artifact is saved for a request only in the step in which
\* run_async, still awaiting, receives a successful render result and
\* returns; so at most one artifact per call, and none once a failure or
\* timeout has been returned, whatever the worker does afterwards.
C26_SaveOnceAfterSuccess ==
    [][\A r \in Reqs :
          /\ (\E a \in artifacts' \ artifacts : a.req = r) =>
                /\ pc[r] = "awaiting" /\ work[r] = "done" /\ fut[r].success
                /\ pc'[r] = "returned" /\ ret'[r].success
                /\ ~Saved(r)
          /\ Cardinality({a \in artifacts' : a.req = r}) <= 1
          /\ (pc[r] = "returned" /\ ~ret[r].success) => ~Saved(r)'
      ]_vars

\* A render finished successfully on its worker after run_async had
\* returned the timeout result for it; nothing was saved.
C26_Witness ==
    \E r \in Reqs :
        /\ pc[r] = "returned" /\ ret[r].error = "timeout_wait_for"
        /\ work[r] = "done" /\ fut[r].success
        /\ ~Saved(r)

\* C27: when the concurrent Plotly renders have all finished, sys.stdout
\* and sys.stderr are the streams they were before the renders started.
C27_StreamsRestored ==
    (\A w \in Workers : std.at[w] = "finished") =>
        std.sys_stdout = Original /\ std.sys_stderr = Original

\* C28: two ECharts PNG renders in flight at the same time never have the
\* same temporary script and output file names.
C28_DistinctTempPaths ==
    \A r, q \in Reqs :
        ( /\ r # q
          /\ args[r].tool = "echarts" /\ blocked[r] = "child"
          /\ args[q].tool = "echarts" /\ blocked[q] = "child" )
        => temp.path[r] # temp.path[q]

\* Stream k is the latest one opened for its user.
Latest(k) ==
    \A j \in Conns :
        (sse.stream[j].at # "none" /\ sse.stream[j].user = sse.stream[k].user) => j <= k

StreamOpen(k) == sse.stream[k].at \in {"top", "waiting"}

\* C29: while the latest event stream opened for a user is still open,
\* active_sessions holds under that user's key the entry whose queue the
\* stream is reading, also after an earlier stream of the same user has
\* closed.
C29_OpenStreamHasSession ==
    \A k \in Conns :
        (StreamOpen(k) /\ Latest(k))
            => sse.active_sessions[sse.stream[k].user] = sse.stream[k].session_data

\* C30: run_async never raises on its arguments: whatever the args dict
\* holds (a missing, empty, None or non-string code, any output_format), the
\* call returns a dict, and a dict with success false carries an error.
C30_NeverRaises ==
    \A r \in Reqs :
        /\ pc[r] # "raised"
        /\ pc[r] = "returned" =>
              /\ ret[r].success \in BOOLEAN
              /\ ~ret[r].success => ("error" \in ret[r].keys /\ ret[r].error # "none")

====
